---- MODULE Spec2Model ----
(***************************************************************************)
(* The storage engine of filetracker-rs: LockMap (src/src/lockmap.rs),     *)
(* BlobStorage (src/src/blobstorage.rs) and LocalStorage                   *)
(* (src/src/storage.rs), run by the request handlers of src/src/main.rs on *)
(* the multi-threaded tokio runtime.  Every filesystem call and every      *)
(* lock-map call of a handler is one step of the task that runs it.        *)
(***************************************************************************)
EXTENDS Integers, Sequences, FiniteSets, TLC

\* Bounds of the model.
NumTasks == 2
MaxVersion == 2
MaxOps == 3

Tasks == 1..NumTasks
Versions == 1..MaxVersion
Paths == {"p1", "p2"}
Hashes == {"h1", "h2"}
Keys == Paths \cup Hashes

\* An Arc<tokio::sync::Mutex<()>> is named by its key and the index of its
\* allocation among the live mutexes of that key.
MaxGen == NumTasks + 1
MutexIds == Keys \X (1..MaxGen)

NoHash == "none"

\* The request bodies: byte strings, given by what they decompress to.  A
\* request with content_is_gzipped carries the gzip stream of c, one without
\* carries c itself.
Contents == {"x", "yy"}
\* content.len() of the uncompressed body c
ContentLen(c) == IF c = "x" THEN 1 ELSE 2
\* Sha256::new().chain_update(content).finalize()
Sha256(c) == IF c = "x" THEN "h1" ELSE "h2"
\* The body whose SHA-256 is h.
Content(h) == CHOOSE c \in Contents : Sha256(c) = h
\* A request without the header Logical-Size.
NoSize == -1
Sizes == {ContentLen(c) : c \in Contents}
\* The value read_meta_for yields for a path with no metadata file.
NotFound == [version |-> 0, checksum |-> NoHash, decompressed_size |-> 0]
\* The value read_meta_for yields for a metadata file that does not deserialize.
InvalidData == [version |-> -1, checksum |-> NoHash, decompressed_size |-> 0]
\* counts[h] when the file <blob>.count does not exist.
NoFile == -1
NoArgs == [op |-> "none", path |-> "none", version |-> 0, checksum |-> NoHash,
           decompressed_size |-> 0]
\* value[t] of a task whose last operation was no head, or returned Err.
NoValue == [none |-> TRUE]
\* before[t] of a task that is in no BlobStorage call.
NoEntry == [blob |-> FALSE, count |-> NoFile]

\* Option<T>: None, and Some(x).
None == <<>>
Some(x) == <<x>>

\* The entries a metadata directory may have, each named by its path from the
\* metadata root: the files a, d/b and d/e/c and the directories d and d/e.
Root == <<>>
FileNodes == {<<"a">>, <<"d", "b">>, <<"d", "e", "c">>}
DirNodes == {<<"d">>, <<"d", "e">>}
Nodes == FileNodes \cup DirNodes
\* An entry that does not exist, and the entry that is a directory.
NoNode == [kind |-> "none", version |-> 0]
DirNode == [kind |-> "dir", version |-> 0]
\* The store with nothing in its metadata directory; read_dir gives no entry.
EmptyTree == [nodes |-> [n \in Nodes |-> NoNode],
              order |-> [d \in DirNodes \cup {Root} |-> <<>>]]
\* No FileLister has been made.
NoLister == [state |-> "none", metadata |-> Root, max_version |-> 0,
             readdir_stack |-> <<>>]

VARIABLES
  files,       \* metadata/<path>: the FileMetadata record stored for each path
  blobs,       \* blobs/<hh>/<h..>: whether the blob file exists
  counts,      \* blobs/<hh>/<h..>.count: the number it holds, or NoFile
  locks,       \* LockMap.locks of LocalStorage (paths) and BlobStorage (hashes)
  mtxOwner,    \* the task that has the permit of each tokio mutex, or 0
  mtxWaiters,  \* the FIFO queue of tasks waiting for each tokio mutex
  handles,     \* per task: the lock futures and guards it owns
  pc,          \* per task: the statement it is at
  args,        \* per task: the operation it runs and its arguments
  meta,        \* per task: the metadata record the operation has read
  sha256,      \* per task: the hash of the BlobStorage call in progress
  refs,        \* per task: the count read_usize returned to that call
  result,      \* per task: what its last operation returned
  value,       \* per task: what its last head returned inside Ok
  created,     \* per task: the bool its last BlobStorage::write returned
  before,      \* per task: the blob and count its BlobStorage call found when it
               \* got the guard of the hash
  budget,      \* operations that may still be started
  history,     \* the operations a scripted driver has issued, in order
  pre,         \* the files of the store when the scripted driver issued the last one
  tree,        \* the directory tree under the metadata root that a listing walks
  lister,      \* the FileLister that list returned
  yielded,     \* the items next() has returned, in order
  ended,       \* how many times next() has returned None
  input,       \* the &str that hex_to_byte_array is called with
  bytes,       \* the bytes that bytes_to_hex is called with
  hex,         \* the String bytes_to_hex returned
  array,       \* the Option<[u8; N]> hex_to_byte_array returned
  called       \* the functions of util.rs that have returned, in order

fs == <<files, blobs, counts>>
mtx == <<mtxOwner, mtxWaiters>>
local == <<args, meta, sha256, refs>>
ghost == <<history, pre>>
listing == <<tree, lister, yielded, ended>>
codec == <<input, bytes, hex, array, called>>
vars == <<files, blobs, counts, locks, mtxOwner, mtxWaiters, handles, pc, args,
          meta, sha256, refs, result, value, created, before, budget, history, pre,
          tree, lister, yielded, ended, input, bytes, hex, array, called>>

Snapshot == [files |-> files, blobs |-> blobs, counts |-> counts]

\* No function of util.rs was called.
NoCodec ==
  /\ input = <<>>
  /\ bytes = <<>>
  /\ hex = <<>>
  /\ array = None
  /\ called = <<>>

\* No request in progress and b operations left to call: the lock maps are
\* empty and no listing was made.
NoRequest(b) ==
  /\ locks = [k \in Keys |-> 0]
  /\ mtxOwner = [m \in MutexIds |-> 0]
  /\ mtxWaiters = [m \in MutexIds |-> <<>>]
  /\ handles = [t \in Tasks |-> {}]
  /\ pc = [t \in Tasks |-> "idle"]
  /\ args = [t \in Tasks |-> NoArgs]
  /\ meta = [t \in Tasks |-> NotFound]
  /\ sha256 = [t \in Tasks |-> NoHash]
  /\ refs = [t \in Tasks |-> 0]
  /\ result = [t \in Tasks |-> "none"]
  /\ value = [t \in Tasks |-> NoValue]
  /\ created = [t \in Tasks |-> "none"]
  /\ before = [t \in Tasks |-> NoEntry]
  /\ budget = b
  /\ history = <<>>
  /\ pre = Snapshot
  /\ lister = NoLister
  /\ yielded = <<>>
  /\ ended = 0

\* No request in progress, b operations left to call, and no blob and no
\* record in the store.
StoreInit(b) ==
  /\ files = [p \in Paths |-> NotFound]
  /\ blobs = [h \in Hashes |-> FALSE]
  /\ counts = [h \in Hashes |-> NoFile]
  /\ NoRequest(b)

\* The store LocalStorage::new makes in an empty directory.
InitWith(b) == StoreInit(b) /\ tree = EmptyTree /\ NoCodec

Init == InitWith(MaxOps)

----------------------------------------------------------------------------
\* LockMap

\* StrongCount that leaves out the futures: the map's reference and the guards.
StrongCountGuards(k, g) ==
  (IF locks[k] = g THEN 1 ELSE 0)
  + Cardinality({t \in Tasks : [key |-> k, gen |-> g, st |-> "guard"] \in handles[t]})

\* Arc::strong_count of the mutex g of key k: the map's reference and one per
\* future or guard that holds a clone.
StrongCount(k, g) ==
  (IF locks[k] = g THEN 1 ELSE 0)
  + Cardinality({x \in Tasks \X {"future", "waiting", "guard"} :
       [key |-> k, gen |-> g, st |-> x[2]] \in handles[x[1]]})

\* The allocation Arc::default() returns: one that is not live.
NewLock(k) == CHOOSE g \in 1..MaxGen :
  /\ StrongCount(k, g) = 0
  /\ \A g2 \in 1..(g - 1) : StrongCount(k, g2) > 0

\* lock_ref(key): under the map's std mutex, clone the entry's Arc or insert a
\* new one, and return the lock_owned() future, not yet polled.
LockRef(t, k) ==
  LET g == IF locks[k] # 0 THEN locks[k] ELSE NewLock(k) IN
  /\ locks' = [locks EXCEPT ![k] = g]
  /\ handles' = [handles EXCEPT ![t] = @ \cup {[key |-> k, gen |-> g, st |-> "future"]}]

HandleOf(t, k) == CHOOSE h \in handles[t] : h.key = k
Holds(t, k) == \E h \in handles[t] : h.key = k /\ h.st = "guard"

\* A poll of the lock_owned() future of key k can make progress: it has not
\* been polled yet, or the mutex's permit was handed to the waiting task.
CanPoll(t, k) ==
  \E h \in handles[t] :
    /\ h.key = k
    /\ \/ h.st = "future"
       \/ h.st = "waiting" /\ mtxOwner[<<k, h.gen>>] = t

\* Poll with one permit for the whole map: the guard is not given while the
\* mutex of any other key is owned.
PollOneForAll(t, k) ==
  LET h == HandleOf(t, k)
      m == <<k, h.gen>>
      got == /\ (h.st = "waiting") \/ mtxOwner[m] = 0
             /\ \A m2 \in MutexIds : m2[1] = k \/ mtxOwner[m2] = 0
  IN /\ handles' = [handles EXCEPT ![t] =
            (@ \ {h}) \cup {[h EXCEPT !.st = IF got THEN "guard" ELSE "waiting"]}]
     /\ mtxOwner' = [mtxOwner EXCEPT ![m] = IF h.st = "future" /\ @ = 0 THEN t ELSE @]
     /\ mtxWaiters' = [mtxWaiters EXCEPT ![m] =
            IF h.st = "future" /\ mtxOwner[m] # 0 THEN Append(@, t) ELSE @]

\* .await on the lock_owned() future: take the permit when it is free, else
\* queue behind the earlier waiters.  TRUE in Acquired iff the guard is returned.
Poll(t, k) ==
  LET h == HandleOf(t, k)
      m == <<k, h.gen>>
      got == (h.st = "waiting") \/ mtxOwner[m] = 0
  IN /\ handles' = [handles EXCEPT ![t] =
            (@ \ {h}) \cup {[h EXCEPT !.st = IF got THEN "guard" ELSE "waiting"]}]
     /\ mtxOwner' = [mtxOwner EXCEPT ![m] = IF h.st = "future" /\ @ = 0 THEN t ELSE @]
     /\ mtxWaiters' = [mtxWaiters EXCEPT ![m] =
            IF h.st = "future" /\ mtxOwner[m] # 0 THEN Append(@, t) ELSE @]

Acquired(t, k) ==
  LET h == HandleOf(t, k) IN (h.st = "waiting") \/ mtxOwner[<<k, h.gen>>] = 0

\* Dropping the futures and guards hs of task t: a guard gives its permit to
\* the first waiter, a queued future leaves the queue, and each drops its Arc.
Drop(t, hs) ==
  LET guard(m) == [key |-> m[1], gen |-> m[2], st |-> "guard"] \in hs
      queued(m) == [key |-> m[1], gen |-> m[2], st |-> "waiting"] \in hs
  IN /\ handles' = [handles EXCEPT ![t] = @ \ hs]
     /\ mtxOwner' = [m \in MutexIds |->
            IF guard(m)
              THEN IF mtxWaiters[m] = <<>> THEN 0 ELSE Head(mtxWaiters[m])
              ELSE mtxOwner[m]]
     /\ mtxWaiters' = [m \in MutexIds |->
            IF guard(m)
              THEN IF mtxWaiters[m] = <<>> THEN <<>> ELSE Tail(mtxWaiters[m])
              ELSE IF queued(m)
                THEN SelectSeq(mtxWaiters[m], LAMBDA x : x # t)
                ELSE mtxWaiters[m]]

\* Retain with the count compared to 2: an entry whose only other reference is
\* one guard is reclaimed.
RetainAboveTwo(k) == StrongCount(k, locks[k]) > 2

\* retain(|_, v| Arc::strong_count(v) > 1)
Retain(k) == StrongCount(k, locks[k]) > 1

\* One tick of cleanup_worker of the lock map whose keys are K.
CleanupWorker(K) ==
  /\ locks' = [k \in Keys |-> IF k \in K /\ locks[k] # 0 /\ ~Retain(k) THEN 0 ELSE locks[k]]
  /\ UNCHANGED <<fs, mtx, handles, pc, local, result, value, created, before,
                 budget, ghost, listing, codec>>

----------------------------------------------------------------------------
\* Returning from an operation of LocalStorage, with val inside the Ok or Err:
\* every local is dropped.
ReturnValue(t, res, val) ==
  /\ pc' = [pc EXCEPT ![t] = "idle"]
  /\ result' = [result EXCEPT ![t] = res]
  /\ value' = [value EXCEPT ![t] = val]
  /\ args' = [args EXCEPT ![t] = NoArgs]
  /\ meta' = [meta EXCEPT ![t] = NotFound]
  /\ sha256' = [sha256 EXCEPT ![t] = NoHash]
  /\ refs' = [refs EXCEPT ![t] = 0]
  /\ before' = [before EXCEPT ![t] = NoEntry]
  /\ Drop(t, handles[t])
  /\ UNCHANGED <<locks, created, budget, ghost, listing, codec>>

\* Returning Err, or an Ok whose content the model does not keep.
Return(t, res) == ReturnValue(t, res, NoValue)

\* Moving to statement l of the same operation.
Goto(t, l) ==
  /\ pc' = [pc EXCEPT ![t] = l]
  /\ UNCHANGED <<result, value, args, created, before, budget, ghost, listing, codec>>

\* BlobReturn with the guard kept by the caller until it returns.
BlobReturnGuardKept(t, l) ==
  /\ pc' = [pc EXCEPT ![t] = l]
  /\ sha256' = [sha256 EXCEPT ![t] = IF l = "write_lock_ref" THEN args[t].checksum ELSE NoHash]
  /\ refs' = [refs EXCEPT ![t] = 0]
  /\ before' = [before EXCEPT ![t] = NoEntry]
  /\ UNCHANGED <<locks, mtx, handles, result, value, args, meta, budget, ghost,
                 listing, codec>>

\* Leaving a BlobStorage call that succeeded: its _guard is dropped and the
\* caller goes on at statement l.
BlobReturn(t, l) ==
  /\ pc' = [pc EXCEPT ![t] = l]
  /\ sha256' = [sha256 EXCEPT ![t] = IF l = "write_lock_ref" THEN args[t].checksum ELSE NoHash]
  /\ refs' = [refs EXCEPT ![t] = 0]
  /\ before' = [before EXCEPT ![t] = NoEntry]
  /\ Drop(t, {h \in handles[t] : h.key = sha256[t]})
  /\ UNCHANGED <<locks, result, value, args, meta, budget, ghost, listing, codec>>

\* `.await` of the future lock_ref(k) returned, at statement from; the task
\* goes on at statement to once it has the guard.
Await(t, k, from, to) ==
  /\ pc[t] = from
  /\ CanPoll(t, k)
  /\ Poll(t, k)
  /\ pc' = [pc EXCEPT ![t] = IF Acquired(t, k) THEN to ELSE from]
  /\ before' = IF k \in Hashes /\ Acquired(t, k)
                 THEN [before EXCEPT ![t] = [blob |-> blobs[k], count |-> counts[k]]]
                 ELSE before
  /\ UNCHANGED <<fs, locks, local, result, value, created, budget, ghost, listing, codec>>

\* A call of an operation of LocalStorage by a request handler, up to and
\* including its lock_ref(path); n is the checksum and size put has computed.
Call(t, op, p, v, n, to) ==
  /\ pc[t] = "idle"
  /\ budget > 0
  /\ budget' = budget - 1
  /\ LockRef(t, p)
  /\ pc' = [pc EXCEPT ![t] = to]
  /\ args' = [args EXCEPT ![t] = [op |-> op, path |-> p, version |-> v,
                 checksum |-> n.checksum, decompressed_size |-> n.decompressed_size]]
  /\ result' = [result EXCEPT ![t] = "none"]
  /\ value' = [value EXCEPT ![t] = NoValue]
  /\ created' = [created EXCEPT ![t] = "none"]
  /\ UNCHANGED <<fs, mtx, meta, sha256, refs, before, listing, codec>>

----------------------------------------------------------------------------
\* BlobStorage

\* Moving to statement l inside a BlobStorage call.
BlobGoto(t, l) ==
  /\ Goto(t, l)
  /\ UNCHANGED <<locks, mtx, handles, meta, sha256>>

WriteLockRef(t) ==
  /\ pc[t] = "write_lock_ref"
  /\ LockRef(t, sha256[t])
  /\ Goto(t, "write_await")
  /\ UNCHANGED <<fs, mtx, meta, sha256, refs>>

\* WriteAwait with the future of lock_ref never awaited, as in put.
WriteAwaitMissing(t) ==
  /\ pc[t] = "write_await"
  /\ BlobGoto(t, "write_exists")
  /\ UNCHANGED <<fs, refs>>

WriteAwait(t) == Await(t, sha256[t], "write_await", "write_exists")

\* WriteExists that takes the blob for missing whether it exists or not.
WriteExistsNever(t) ==
  /\ pc[t] = "write_exists"
  /\ BlobGoto(t, "write_copy")
  /\ UNCHANGED <<fs, refs>>

\* write: `if !path.exists()`
WriteExists(t) ==
  /\ pc[t] = "write_exists"
  /\ BlobGoto(t, IF ~blobs[sha256[t]] THEN "write_copy" ELSE "write_read_count")
  /\ UNCHANGED <<fs, refs>>

\* write: the data is copied to <blob>.tmp, which is renamed to the blob.
WriteCopy(t) ==
  /\ pc[t] = "write_copy"
  /\ blobs' = [blobs EXCEPT ![sha256[t]] = TRUE]
  /\ BlobGoto(t, "write_count")
  /\ UNCHANGED <<files, counts, refs>>

\* write: std::fs::write(count_path, b"1").map(|_| true)
WriteCount(t) ==
  /\ pc[t] = "write_count"
  /\ counts' = [counts EXCEPT ![sha256[t]] = 1]
  /\ created' = [created EXCEPT ![t] = "true"]
  /\ BlobReturn(t, "put_commit")
  /\ UNCHANGED <<files, blobs>>

\* write: read_usize(&count_path)?
WriteReadCount(t) ==
  /\ pc[t] = "write_read_count"
  /\ UNCHANGED fs
  /\ IF counts[sha256[t]] = NoFile
       THEN Return(t, "not_found")
       ELSE /\ refs' = [refs EXCEPT ![t] = counts[sha256[t]]]
            /\ BlobGoto(t, "write_incr")

\* write: std::fs::write(&count_path, (.. + 1).to_string()).map(|_| false)
WriteIncr(t) ==
  /\ pc[t] = "write_incr"
  /\ counts' = [counts EXCEPT ![sha256[t]] = refs[t] + 1]
  /\ created' = [created EXCEPT ![t] = "false"]
  /\ BlobReturn(t, "put_commit")
  /\ UNCHANGED <<files, blobs>>

DecrefLockRef(t) ==
  /\ pc[t] = "decref_lock_ref"
  /\ LockRef(t, sha256[t])
  /\ Goto(t, "decref_await")
  /\ UNCHANGED <<fs, mtx, meta, sha256, refs>>

DecrefAwait(t) == Await(t, sha256[t], "decref_await", "decref_read")

\* LastRef with the count compared to 0.
LastRefZero(n) == n = 0

\* `if refs == 1` of decref
LastRef(n) == n = 1

\* The statement of the caller that follows its decref(..).await?
AfterDecref(t) == IF args[t].op = "put" THEN "write_lock_ref" ELSE "delete_remove"

\* DecrefRead that reads the count and leaves the blob as it is.
DecrefReadOnly(t) ==
  /\ pc[t] = "decref_read"
  /\ UNCHANGED fs
  /\ IF counts[sha256[t]] = NoFile
       THEN Return(t, "not_found")
       ELSE BlobReturn(t, AfterDecref(t)) /\ UNCHANGED created

\* decref: let refs = read_usize(&count_path)?
DecrefRead(t) ==
  /\ pc[t] = "decref_read"
  /\ UNCHANGED fs
  /\ IF counts[sha256[t]] = NoFile
       THEN Return(t, "not_found")
       ELSE /\ refs' = [refs EXCEPT ![t] = counts[sha256[t]]]
            /\ BlobGoto(t, IF LastRef(counts[sha256[t]])
                             THEN "decref_remove_count" ELSE "decref_write")

\* decref: std::fs::remove_file(count_path)?
DecrefRemoveCount(t) ==
  /\ pc[t] = "decref_remove_count"
  /\ UNCHANGED <<files, blobs>>
  /\ IF counts[sha256[t]] = NoFile
       THEN Return(t, "not_found") /\ UNCHANGED counts
       ELSE /\ counts' = [counts EXCEPT ![sha256[t]] = NoFile]
            /\ BlobGoto(t, "decref_remove_blob")
            /\ UNCHANGED refs

\* DecrefRemoveBlob that leaves the blob where it is.
DecrefKeepBlob(t) ==
  /\ pc[t] = "decref_remove_blob"
  /\ UNCHANGED fs
  /\ BlobReturn(t, AfterDecref(t))
  /\ UNCHANGED created

\* decref: std::fs::remove_file(path)
DecrefRemoveBlob(t) ==
  /\ pc[t] = "decref_remove_blob"
  /\ UNCHANGED <<files, counts>>
  /\ IF blobs[sha256[t]]
       THEN /\ blobs' = [blobs EXCEPT ![sha256[t]] = FALSE]
            /\ BlobReturn(t, AfterDecref(t))
            /\ UNCHANGED created
       ELSE Return(t, "not_found") /\ UNCHANGED blobs

\* decref: std::fs::write(count_path, (refs - 1).to_string()); refs - 1
\* overflows when refs is 0, and the task panics.
DecrefWrite(t) ==
  /\ pc[t] = "decref_write"
  /\ UNCHANGED <<files, blobs>>
  /\ IF refs[t] = 0
       THEN Return(t, "panic") /\ UNCHANGED counts
       ELSE /\ counts' = [counts EXCEPT ![sha256[t]] = refs[t] - 1]
            /\ BlobReturn(t, AfterDecref(t))
            /\ UNCHANGED created

----------------------------------------------------------------------------
\* LocalStorage

\* The operations that take no content.
NoContent == [checksum |-> NoHash, decompressed_size |-> 0]

\* The error `self.read_meta_for(path)?` returns from an operation.
ReadError(r) == IF r = NotFound THEN "not_found" ELSE "invalid_data"

GetCall(t, p) == Call(t, "get", p, 0, NoContent, "get_await")

GetAwait(t) == Await(t, args[t].path, "get_await", "get_read_meta")

GetReadMeta(t) ==
  LET p == args[t].path IN
  /\ pc[t] = "get_read_meta"
  /\ UNCHANGED fs
  /\ IF files[p] \in {NotFound, InvalidData}
       THEN Return(t, ReadError(files[p]))
       ELSE /\ meta' = [meta EXCEPT ![t] = files[p]]
            /\ Goto(t, "get_read_blob")
            /\ UNCHANGED <<locks, mtx, handles, sha256, refs>>

\* get: self.blobs.read(&metadata.checksum)?, which takes no hash lock
GetReadBlob(t) ==
  /\ pc[t] = "get_read_blob"
  /\ UNCHANGED fs
  /\ Return(t, IF blobs[meta[t].checksum] THEN "ok" ELSE "not_found")

\* head: `Ok(metadata)`, the record and nothing else
HeadOk(metadata) == [metadata |-> metadata]

HeadCall(t, p) == Call(t, "head", p, 0, NoContent, "head_await")

HeadAwait(t) == Await(t, args[t].path, "head_await", "head_read_meta")

HeadReadMeta(t) ==
  LET p == args[t].path IN
  /\ pc[t] = "head_read_meta"
  /\ UNCHANGED fs
  /\ IF files[p] \in {NotFound, InvalidData}
       THEN Return(t, ReadError(files[p]))
       ELSE ReturnValue(t, "ok", HeadOk(files[p]))

\* put: `let (decompressed_size, checksum, mut compressed) = ..`.  A body that
\* is not gzipped is measured, and hashed unless the caller gave a checksum; a
\* gzipped one is taken at the caller's word when both checksum and
\* logical_size are given, and is decoded, measured and hashed otherwise.
Normalize(content, content_is_gzipped, checksum, logical_size) ==
  IF ~content_is_gzipped
    THEN [decompressed_size |-> ContentLen(content),
          checksum |-> IF checksum # NoHash THEN checksum ELSE Sha256(content)]
    ELSE IF checksum # NoHash /\ logical_size # NoSize
      THEN [decompressed_size |-> logical_size, checksum |-> checksum]
      ELSE [decompressed_size |-> ContentLen(content), checksum |-> Sha256(content)]

\* put, up to `let _guard = self.locks.lock_ref(path);`: the future is made
\* and kept until put returns, and it is never awaited.
PutCall(t, p, v, content, content_is_gzipped, checksum, logical_size) ==
  Call(t, "put", p, v,
       Normalize(content, content_is_gzipped, checksum, logical_size),
       "put_read_meta")

\* Newer with the comparison turned around.
NewerInverted(existing, version) == existing.version < version

\* `if meta.version > version` of put
Newer(existing, version) == existing.version > version

\* NoRecord with every error taken for a missing record.
NoRecordOrError(r) == r \in {NotFound, InvalidData}

\* `Err(e) if e.kind() == std::io::ErrorKind::NotFound => ()` of put
NoRecord(r) == r = NotFound

\* put: `match self.read_meta_for(path)`
PutReadMeta(t) ==
  LET p == args[t].path IN
  /\ pc[t] = "put_read_meta"
  /\ UNCHANGED fs
  /\ IF NoRecord(files[p])
       THEN /\ Goto(t, "write_lock_ref")
            /\ sha256' = [sha256 EXCEPT ![t] = args[t].checksum]
            /\ UNCHANGED <<locks, mtx, handles, meta, refs>>
       ELSE IF files[p] = InvalidData
         THEN Return(t, "invalid_data")
       ELSE IF Newer(files[p], args[t].version)
         THEN Return(t, "ok")
         ELSE /\ Goto(t, "decref_lock_ref")
              /\ meta' = [meta EXCEPT ![t] = files[p]]
              /\ sha256' = [sha256 EXCEPT ![t] = files[p].checksum]
              /\ UNCHANGED <<locks, mtx, handles, refs>>

\* put: std::fs::write(dest_meta, ..) and Ok(())
PutCommit(t) ==
  /\ pc[t] = "put_commit"
  /\ files' = [files EXCEPT ![args[t].path] =
                 [version |-> args[t].version, checksum |-> args[t].checksum,
                  decompressed_size |-> args[t].decompressed_size]]
  /\ Return(t, "ok")
  /\ UNCHANGED <<blobs, counts>>

\* put: `std::fs::write(dest_meta, ..)?` fails, or put is abandoned before
\* it, and put returns with the blob written and the record as it was.
PutCommitFails(t) ==
  /\ pc[t] = "put_commit"
  /\ Return(t, "io_error")
  /\ UNCHANGED fs

DeleteCall(t, p, v) == Call(t, "delete", p, v, NoContent, "delete_await")

DeleteAwait(t) == Await(t, args[t].path, "delete_await", "delete_read_meta")

\* Deletable with a strict comparison.
DeletableStrict(metadata, max_version) == metadata.version < max_version

\* `if metadata.version <= max_version` of delete
Deletable(metadata, max_version) == metadata.version <= max_version

DeleteReadMeta(t) ==
  LET p == args[t].path IN
  /\ pc[t] = "delete_read_meta"
  /\ UNCHANGED fs
  /\ IF files[p] \in {NotFound, InvalidData}
       THEN Return(t, ReadError(files[p]))
       ELSE IF Deletable(files[p], args[t].version)
         THEN /\ Goto(t, "decref_lock_ref")
              /\ meta' = [meta EXCEPT ![t] = files[p]]
              /\ sha256' = [sha256 EXCEPT ![t] = files[p].checksum]
              /\ UNCHANGED <<locks, mtx, handles, refs>>
         ELSE Return(t, "ok")

\* delete: std::fs::remove_file(self.metadata.join(path))? and Ok(())
DeleteRemove(t) ==
  LET p == args[t].path IN
  /\ pc[t] = "delete_remove"
  /\ UNCHANGED <<blobs, counts>>
  /\ IF files[p] = NotFound
       THEN Return(t, "not_found") /\ UNCHANGED files
       ELSE files' = [files EXCEPT ![p] = NotFound] /\ Return(t, "ok")

----------------------------------------------------------------------------
\* list and FileLister

\* The directory an entry is in, and the entries of the tree that are in
\* directory d.
Parent(n) == SubSeq(n, 1, Len(n) - 1)
AllDirs == DirNodes \cup {Root}
\* Path::starts_with
IsUnder(d, n) == Len(d) <= Len(n) /\ SubSeq(n, 1, Len(d)) = d
\* self.metadata.join(..): a path appended to a directory
Join(d, n) == d \o n
\* path.strip_prefix(base).unwrap(): the rest of a path that starts with base
StripPrefix(base, path) == SubSeq(path, Len(base) + 1, Len(path))

\* What an entry can be: nothing, a directory, a metadata file of some
\* version, or something that is neither a file nor a directory.
FileNode(v) == [kind |-> "file", version |-> v]
OtherNode == [kind |-> "other", version |-> 0]
NodeValues == {NoNode, DirNode, OtherNode} \cup {FileNode(v) : v \in Versions}

\* The metadata directories over Nodes: what is in a directory exists only
\* if the directory does.
NodeMaps ==
  {ns \in [Nodes -> NodeValues] :
     \A n \in Nodes :
       /\ n \in DirNodes => ns[n] \in {NoNode, DirNode}
       /\ n \in FileNodes => ns[n] # DirNode
       /\ ns[n] # NoNode /\ Parent(n) # Root => ns[Parent(n)] = DirNode}

\* The orders in which the entries S can come.
Perms(S) ==
  {s \in [1..Cardinality(S) -> S] : \A i, j \in DOMAIN s : i # j => s[i] # s[j]}

\* An unchanging metadata tree with valid records, and the order in which
\* read_dir returns the entries of each of its directories.
ListInit ==
  /\ StoreInit(0)
  /\ NoCodec
  /\ \E ns \in NodeMaps, r \in Perms(Nodes) :
       tree = [nodes |-> ns,
               order |-> [d \in AllDirs |->
                  SelectSeq(r, LAMBDA n : Parent(n) = d /\ ns[n] # NoNode)]]

\* std::fs::read_dir(d): the entries of directory d that are still to come.
ReadDir(d) == tree.order[d]

\* list: `self.metadata.join(path)`, `metadata.read_dir()?` and the
\* FileLister made of them; its field metadata is the directory listed.
List(path, max_version) ==
  /\ lister.state = "none"
  /\ lister' =
       IF path = Root \/ tree.nodes[path] = DirNode
         THEN [state |-> "open", metadata |-> Join(Root, path),
               max_version |-> max_version, readdir_stack |-> <<ReadDir(path)>>]
         ELSE [NoLister EXCEPT !.state =
                 IF tree.nodes[path] = NoNode THEN "not_found" ELSE "not_a_directory"]
  /\ UNCHANGED <<fs, locks, mtx, handles, pc, local, result, value, created, before,
                 budget, ghost, tree, yielded, ended, codec>>

\* next() returns None.
NoItem == [path |-> <<>>, metadata |-> NoNode]

\* Listed with a strict comparison.
ListedStrict(metadata, max_version) == metadata.version < max_version

\* `if metadata.version <= self.max_version` of next
Listed(metadata, max_version) == metadata.version <= max_version

\* The loop of next() on FileLister l: the stack it leaves and the item it
\* returns.  The entry that comes next in the directory on top of the stack
\* is opened and pushed when it is a directory, is returned when it is a file
\* that is listed, with its path stripped of l.metadata, and is passed over
\* otherwise; a directory with no entry left is popped.
RECURSIVE FileListerLoop(_, _)
FileListerLoop(l, stack) ==
  IF stack = <<>>
    THEN [readdir_stack |-> stack, item |-> NoItem]
    ELSE
      LET current == stack[Len(stack)]
          below == SubSeq(stack, 1, Len(stack) - 1)
      IN IF current = <<>>
           THEN FileListerLoop(l, below)
           ELSE
             LET e == Head(current)
                 rest == Append(below, Tail(current))
                 metadata == tree.nodes[e]
             IN IF metadata.kind = "dir"
                  THEN FileListerLoop(l, Append(rest, ReadDir(e)))
                  ELSE IF metadata.kind = "file" /\ Listed(metadata, l.max_version)
                    THEN [readdir_stack |-> rest,
                          item |-> [path |-> StripPrefix(l.metadata, e),
                                    metadata |-> metadata]]
                    ELSE FileListerLoop(l, rest)

\* The calls of next() made after it has returned None are counted up to here.
MaxNone == 2

\* One call of FileLister::next.
FileListerNext ==
  LET r == FileListerLoop(lister, lister.readdir_stack) IN
  /\ lister.state = "open"
  /\ ended < MaxNone
  /\ lister' = [lister EXCEPT !.readdir_stack = r.readdir_stack]
  /\ IF r.item = NoItem
       THEN ended' = ended + 1 /\ UNCHANGED yielded
       ELSE yielded' = Append(yielded, r.item) /\ UNCHANGED ended
  /\ UNCHANGED <<fs, locks, mtx, handles, pc, local, result, value, created, before,
                 budget, ghost, tree, codec>>

\* list_files: one listing of any directory, file or missing path of the
\* tree, with any max_version, read to its end and beyond.
list_files == \E path \in AllDirs \cup Nodes, v \in 0..MaxVersion : List(path, v)

ListNext == list_files \/ FileListerNext

ListSpec == ListInit /\ [][ListNext]_vars

\* list_files calls next() until it returns None.
ListFairSpec == ListSpec /\ WF_vars(FileListerNext)

----------------------------------------------------------------------------
\* util.rs: bytes_to_hex and hex_to_byte_array

\* N of hex_to_byte_array::<N>, and the u8 values.
HexN == 1
Byte == 0..255

\* A string is the sequence of its chars.  The chars the strings given to
\* hex_to_byte_array are made of: digits, hex letters of both cases, a letter
\* that is no hex digit, and a char whose UTF-8 encoding has two bytes.
Chars == {"0", "7", "a", "F", "g", "é"}
\* The strings of up to n chars.
Strings(n) == UNION {[1..k -> Chars] : k \in 0..n}
\* The arrays [u8; HexN].
Arrays == [1..HexN -> Byte]

\* char::len_utf8
LenUtf8(c) == IF c = "é" THEN 2 ELSE 1

\* str::len: the length in bytes
RECURSIVE StrLen(_)
StrLen(s) == IF s = <<>> THEN 0 ELSE LenUtf8(Head(s)) + StrLen(Tail(s))

\* The digits of radix 16 that char::from_digit makes, and the upper-case
\* letters char::to_digit takes for them too.
LowerDigits == <<"0", "1", "2", "3", "4", "5", "6", "7", "8", "9",
                 "a", "b", "c", "d", "e", "f">>
UpperDigits == <<"0", "1", "2", "3", "4", "5", "6", "7", "8", "9",
                 "A", "B", "C", "D", "E", "F">>
\* The chars of a string of digits.
Range(s) == {s[i] : i \in 1..Len(s)}
\* The value of the digit c of the digits s.
ValueIn(s, c) == (CHOOSE i \in 1..Len(s) : s[i] = c) - 1

\* x & y and x | y of two unsigned integers
RECURSIVE BitAnd(_, _)
BitAnd(x, y) ==
  IF x = 0 \/ y = 0 THEN 0
  ELSE (IF x % 2 = 1 /\ y % 2 = 1 THEN 1 ELSE 0) + 2 * BitAnd(x \div 2, y \div 2)
RECURSIVE BitOr(_, _)
BitOr(x, y) ==
  IF x = 0 THEN y
  ELSE IF y = 0 THEN x
  ELSE (IF x % 2 = 1 \/ y % 2 = 1 THEN 1 ELSE 0) + 2 * BitOr(x \div 2, y \div 2)

\* char::from_digit(d, 16).unwrap(), for d < 16
FromDigit(d) == LowerDigits[d + 1]

\* c.to_digit(16) of a char that is no digit of radix 16
NoDigit == -1

\* ToDigit with the letter g taken for a digit too, as in a radix above 16.
ToDigitAnyLetter(c) ==
  IF c \in Range(LowerDigits) THEN ValueIn(LowerDigits, c)
  ELSE IF c \in Range(UpperDigits) THEN ValueIn(UpperDigits, c)
  ELSE IF c = "g" THEN 16
  ELSE NoDigit

\* c.to_digit(16): the value of a digit or of a letter a-f or A-F, else None
ToDigit(c) ==
  IF c \in Range(LowerDigits) THEN ValueIn(LowerDigits, c)
  ELSE IF c \in Range(UpperDigits) THEN ValueIn(UpperDigits, c)
  ELSE NoDigit

\* bytes_to_hex: two chars for each byte, the high nibble first
RECURSIVE bytes_to_hex(_)
bytes_to_hex(data) ==
  IF data = <<>> THEN <<>>
  ELSE LET x == Head(data) IN
       <<FromDigit(BitAnd(x, 240) \div 16), FromDigit(BitAnd(x, 15))>>
         \o bytes_to_hex(Tail(data))

\* The loop of hex_to_byte_array over the n bytes of result still to fill:
\* `?` returns None when the chars run out or one is no digit, and `as u8`
\* keeps the low eight bits.
RECURSIVE HexLoop(_, _, _)
HexLoop(it, res, n) ==
  IF n = 0 THEN Some(res)
  ELSE IF it = <<>> \/ ToDigit(Head(it)) = NoDigit THEN None
  ELSE IF Tail(it) = <<>> \/ ToDigit(Head(Tail(it))) = NoDigit THEN None
  ELSE HexLoop(Tail(Tail(it)),
               Append(res, BitOr(ToDigit(Head(it)) * 16, ToDigit(Head(Tail(it)))) % 256),
               n - 1)

\* hex_to_byte_array::<n>(data)
hex_to_byte_array(n, data) ==
  IF StrLen(data) # n * 2 THEN None ELSE HexLoop(data, <<>>, n)

\* A caller has either a string, of up to one char more than an array takes,
\* or an array.
HexInit ==
  /\ StoreInit(0)
  /\ tree = EmptyTree
  /\ \/ input \in Strings(2 * HexN + 1) /\ bytes = <<>>
     \/ bytes \in Arrays /\ input = <<>>
  /\ hex = <<>>
  /\ called = <<>>
  /\ array = None

\* The caller of put_file: hex_to_byte_array of the string it has.
Decode ==
  /\ called = <<>>
  /\ bytes = <<>>
  /\ array' = hex_to_byte_array(HexN, input)
  /\ called' = <<"hex_to_byte_array">>
  /\ UNCHANGED <<fs, locks, mtx, handles, pc, local, result, value, created, before,
                 budget, ghost, listing, input, bytes, hex>>

\* The caller of path_to_blob: bytes_to_hex of the array it has.
Encode ==
  /\ called = <<>>
  /\ bytes # <<>>
  /\ hex' = bytes_to_hex(bytes)
  /\ called' = <<"bytes_to_hex">>
  /\ UNCHANGED <<fs, locks, mtx, handles, pc, local, result, value, created, before,
                 budget, ghost, listing, input, bytes, array>>

\* hex_to_byte_array of the String bytes_to_hex returned.
DecodeEncoded ==
  /\ called = <<"bytes_to_hex">>
  /\ input' = hex
  /\ array' = hex_to_byte_array(HexN, hex)
  /\ called' = <<"bytes_to_hex", "hex_to_byte_array">>
  /\ UNCHANGED <<fs, locks, mtx, handles, pc, local, result, value, created, before,
                 budget, ghost, listing, bytes, hex>>

HexNext == Decode \/ Encode \/ DecodeEncoded

HexSpec == HexInit /\ [][HexNext]_vars

----------------------------------------------------------------------------
\* The steps a task takes inside an operation it has been called with.
GetStep(t) == GetAwait(t) \/ GetReadMeta(t) \/ GetReadBlob(t)
HeadStep(t) == HeadAwait(t) \/ HeadReadMeta(t)
PutStep(t) == PutReadMeta(t) \/ PutCommit(t)
DeleteStep(t) == DeleteAwait(t) \/ DeleteReadMeta(t) \/ DeleteRemove(t)
WriteStep(t) ==
  \/ WriteLockRef(t) \/ WriteAwait(t) \/ WriteExists(t) \/ WriteCopy(t)
  \/ WriteCount(t) \/ WriteReadCount(t) \/ WriteIncr(t)
DecrefStep(t) ==
  \/ DecrefLockRef(t) \/ DecrefAwait(t) \/ DecrefRead(t) \/ DecrefRemoveCount(t)
  \/ DecrefRemoveBlob(t) \/ DecrefWrite(t)
Step(t) ==
  \/ GetStep(t) \/ HeadStep(t) \/ PutStep(t) \/ DeleteStep(t)
  \/ WriteStep(t) \/ DecrefStep(t)

\* The request handlers of main.rs: any task calls any operation at any time.
get_file(t) == \E p \in Paths : GetCall(t, p) /\ UNCHANGED ghost
head_file(t) == \E p \in Paths : HeadCall(t, p) /\ UNCHANGED ghost
\* put_file sends a body that is not gzipped, with neither SHA256-Checksum
\* nor Logical-Size.
put_file(t) ==
  \E p \in Paths, v \in Versions, h \in Hashes :
    PutCall(t, p, v, Content(h), FALSE, NoHash, NoSize) /\ UNCHANGED ghost
delete_file(t) == \E p \in Paths, v \in Versions : DeleteCall(t, p, v) /\ UNCHANGED ghost

Next ==
  \/ \E t \in Tasks : get_file(t) \/ head_file(t) \/ put_file(t) \/ delete_file(t)
  \/ \E t \in Tasks : Step(t)
  \/ CleanupWorker(Paths)
  \/ CleanupWorker(Hashes)

Spec == Init /\ [][Next]_vars

----------------------------------------------------------------------------
\* Scripted drivers: clients that record each call they make, and the files of
\* the store at the call, in history and pre.

AllIdle == \A t \in Tasks : pc[t] = "idle"

Record(t, op, p, v, h) ==
  /\ history' = Append(history,
        [task |-> t, op |-> op, path |-> p, version |-> v, checksum |-> h])
  /\ pre' = Snapshot

\* A client that calls one operation at a time, each after the one before
\* has returned.
SeqGet(t) == \E p \in Paths : AllIdle /\ GetCall(t, p) /\ Record(t, "get", p, 0, NoHash)
SeqHead(t) == \E p \in Paths : AllIdle /\ HeadCall(t, p) /\ Record(t, "head", p, 0, NoHash)
SeqPut(t) ==
  \E p \in Paths, v \in Versions, h \in Hashes :
    /\ AllIdle
    /\ PutCall(t, p, v, Content(h), FALSE, NoHash, NoSize)
    /\ Record(t, "put", p, v, h)
SeqDelete(t) ==
  \E p \in Paths, v \in Versions :
    AllIdle /\ DeleteCall(t, p, v) /\ Record(t, "delete", p, v, NoHash)

SeqNext ==
  \/ \E t \in Tasks : SeqGet(t) \/ SeqHead(t) \/ SeqPut(t) \/ SeqDelete(t)
  \/ \E t \in Tasks : Step(t)
  \/ CleanupWorker(Paths)
  \/ CleanupWorker(Hashes)

SeqSpec == Init /\ [][SeqNext]_vars

\* The calls of history whose operation is op.
Calls(op) == {i \in 1..Len(history) : history[i].op = op}

\* Clients that put one content to distinct paths, concurrently, and, once
\* every put has returned, delete those paths, concurrently, each with a
\* max_version that is at least the version put.
SharePut(t) ==
  \E p \in Paths, v \in Versions, h \in Hashes :
    /\ Calls("delete") = {}
    /\ \A i \in 1..Len(history) : history[i].path # p /\ history[i].checksum = h
    /\ PutCall(t, p, v, Content(h), FALSE, NoHash, NoSize)
    /\ Record(t, "put", p, v, h)

ShareDelete(t) ==
  \E p \in Paths, v \in Versions :
    /\ \A u \in Tasks : args[u].op # "put"
    /\ \E i \in Calls("put") : history[i].path = p /\ history[i].version <= v
    /\ \A i \in Calls("delete") : history[i].path # p
    /\ DeleteCall(t, p, v)
    /\ Record(t, "delete", p, v, NoHash)

ShareNext ==
  \/ \E t \in Tasks : SharePut(t) \/ ShareDelete(t)
  \/ \E t \in Tasks : PutStep(t) \/ DeleteStep(t) \/ WriteStep(t) \/ DecrefStep(t)
  \/ CleanupWorker(Paths)
  \/ CleanupWorker(Hashes)

ShareSpec == InitWith(2 * Cardinality(Paths)) /\ [][ShareNext]_vars

\* A client that puts any body, gzipped or not, with or without the headers
\* SHA256-Checksum and Logical-Size, one put at a time.  history keeps the
\* last request only, with all that was sent.  With no request in progress
\* every task is the same, and the first runs them all.
PutAny ==
  \E t \in {1}, p \in Paths, v \in Versions, c \in Contents, z \in BOOLEAN,
     h \in Hashes \cup {NoHash}, n \in Sizes \cup {NoSize} :
    /\ AllIdle
    /\ PutCall(t, p, v, c, z, h, n)
    /\ history' = <<[task |-> t, op |-> "put", path |-> p, version |-> v,
                     content |-> c, content_is_gzipped |-> z,
                     checksum |-> h, logical_size |-> n]>>
    /\ pre' = Snapshot

PutNext ==
  \/ PutAny
  \/ \E t \in Tasks : PutStep(t) \/ WriteStep(t) \/ DecrefStep(t)
  \/ CleanupWorker(Paths)
  \/ CleanupWorker(Hashes)

PutSpec == Init /\ [][PutNext]_vars

\* A client that calls one operation at a time against a store whose put may
\* fail at the commit of the record; nothing is called once a put has failed.
NoneFailed == \A t \in Tasks : result[t] # "io_error"
CrashPut(t) == NoneFailed /\ SeqPut(t)
CrashDelete(t) == NoneFailed /\ SeqDelete(t)

CrashNext ==
  \/ \E t \in Tasks : CrashPut(t) \/ CrashDelete(t)
  \/ \E t \in Tasks : PutStep(t) \/ DeleteStep(t) \/ WriteStep(t) \/ DecrefStep(t)
  \/ \E t \in Tasks : PutCommitFails(t)
  \/ CleanupWorker(Paths)
  \/ CleanupWorker(Hashes)

CrashSpec == Init /\ [][CrashNext]_vars

\* The metadata file of path p is damaged from outside, while no request is
\* in progress: it exists and no longer deserializes.  One file is damaged.
Corrupt(p) ==
  /\ AllIdle
  /\ \A q \in Paths : files[q] # InvalidData
  /\ files' = [files EXCEPT ![p] = InvalidData]
  /\ UNCHANGED <<blobs, counts, locks, mtx, handles, pc, local, result, value, created,
                 before, budget, ghost, listing, codec>>

\* The client that calls one operation at a time, on a store whose metadata
\* files may be damaged between the calls.
CorruptNext ==
  \/ SeqNext
  \/ \E p \in Paths : Corrupt(p)

CorruptSpec == Init /\ [][CorruptNext]_vars

\* The record a put of version v and of the body whose hash is h commits.
RecordOf(v, h) ==
  [version |-> v, checksum |-> h, decompressed_size |-> ContentLen(Content(h))]

\* The path whose record the readers get, and the other paths.
Watched == "p1"
Others == Paths \ {Watched}

\* The store LocalStorage::new opens in a directory that earlier requests,
\* none of them overlapping another, have filled: the watched path has a
\* record, every blob that a record names exists and its count is the number
\* of the records that name it.
OpenInit ==
  /\ files \in [Paths -> {NotFound} \cup {RecordOf(v, h) : v \in Versions, h \in Hashes}]
  /\ files[Watched] # NotFound
  /\ blobs = [h \in Hashes |-> \E p \in Paths : files[p].checksum = h]
  /\ counts = [h \in Hashes |->
        IF blobs[h] THEN Cardinality({p \in Paths : files[p].checksum = h}) ELSE NoFile]
  /\ NoRequest(MaxOps)
  /\ tree = EmptyTree
  /\ NoCodec

\* Clients that get the watched path, at any time, while others put and
\* delete the other paths, at any time.
WatchedGet(t) == GetCall(t, Watched) /\ UNCHANGED ghost
OtherPut(t) ==
  \E p \in Others, v \in Versions, h \in Hashes :
    PutCall(t, p, v, Content(h), FALSE, NoHash, NoSize) /\ UNCHANGED ghost
OtherDelete(t) ==
  \E p \in Others, v \in Versions : DeleteCall(t, p, v) /\ UNCHANGED ghost

OtherNext ==
  \/ \E t \in Tasks : WatchedGet(t) \/ OtherPut(t) \/ OtherDelete(t)
  \/ \E t \in Tasks : GetStep(t) \/ PutStep(t) \/ DeleteStep(t)
  \/ \E t \in Tasks : WriteStep(t) \/ DecrefStep(t)
  \/ CleanupWorker(Paths)
  \/ CleanupWorker(Hashes)

OtherSpec == OpenInit /\ [][OtherNext]_vars

\* Fair scheduling of the tasks: a task that can take a step eventually does.
FairSpec == Spec /\ \A t \in Tasks : WF_vars(Step(t))

----------------------------------------------------------------------------
\* Properties

\* The refcount of a blob: the number its count file holds, 0 without one.
Refcount(h) == IF counts[h] = NoFile THEN 0 ELSE counts[h]
\* The metadata records whose checksum is h.
References(h) == {p \in Paths : files[p] # NotFound /\ files[p].checksum = h}

\* Task t is inside an operation on path p, past the point where the
\* operation takes the path lock.
InPathSection(t, p) ==
  /\ args[t].path = p
  /\ pc[t] \notin {"idle", "get_await", "head_await", "delete_await"}

\* C1: operations on one path are serialized by the path lock, put included:
\* a put between its read of the metadata and its commit holds the guard of
\* its path, and no two tasks are inside operations on the same path at once.
PathSerialized ==
  /\ \A t \in Tasks : args[t].op = "put" => Holds(t, args[t].path)
  /\ \A t1, t2 \in Tasks, p \in Paths :
       InPathSection(t1, p) /\ InPathSection(t2, p) => t1 = t2

\* C2: when no operation is in flight, every blob's refcount is the number of
\* metadata records that name it, and every record names an existing blob.
RefcountsMatch ==
  AllIdle =>
    /\ \A h \in Hashes : blobs[h] => counts[h] = Cardinality(References(h))
    /\ \A p \in Paths : files[p] # NotFound => blobs[files[p].checksum]

\* C3: at any time at most one task has the guard of a key.
MutualExclusion ==
  \A k \in Keys : Cardinality({t \in Tasks : Holds(t, k)}) <= 1

\* A task has the guard of a key while another one is queued for it.
MutualExclusionWitness ==
  \E k \in Keys, t1, t2 \in Tasks :
    /\ Holds(t1, k)
    /\ \E h \in handles[t2] : h.key = k /\ h.st = "waiting"

\* The futures and guards of task t on keys of K.
HandlesOn(t, K) == {h \in handles[t] : h.key \in K}

\* C4: a task makes or polls a path-lock future only while it has no hash
\* guard, a task never has two hash-lock futures or guards, and under fair
\* scheduling every operation that was called returns.
DeadlockFree ==
  /\ [][\A t \in Tasks :
          HandlesOn(t, Paths)' \ HandlesOn(t, Paths) # {}
            => \A h \in HandlesOn(t, Hashes) : h.st # "guard"]_vars
  /\ [](\A t \in Tasks : Cardinality(HandlesOn(t, Hashes)) <= 1)
  /\ \A t \in Tasks : (pc[t] # "idle") ~> (pc[t] = "idle")

\* A task that has the guard of its path is queued for a hash lock that
\* another task has.
DeadlockFreeWitness ==
  \E t \in Tasks :
    /\ Holds(t, args[t].path)
    /\ \E h \in HandlesOn(t, Hashes) : h.st = "waiting"

\* C5: a blob on which no write or decref is in progress exists exactly when
\* its count file exists and holds a number that is at least 1.
BlobIffCount ==
  \A h \in Hashes :
    (\A t \in Tasks : sha256[t] # h) => (blobs[h] <=> counts[h] >= 1)

\* No operation is in flight and a blob exists that was written twice.
BlobIffCountWitness ==
  AllIdle /\ \E h \in Hashes : blobs[h] /\ counts[h] = 2

\* C7: the version stored for a path never decreases while the path has a
\* record.
VersionMonotone ==
  [][\A p \in Paths :
       files[p] # NotFound /\ files'[p] # NotFound
         => files'[p].version >= files[p].version]_vars

\* The last call of the scripted client, and the record its path had then.
LastCall == history[Len(history)]
PreRecord == pre.files[LastCall.path]

\* A put of a version below the stored one is the last call.
StalePut ==
  /\ history # <<>>
  /\ LastCall.op = "put"
  /\ PreRecord # NotFound
  /\ LastCall.version < PreRecord.version

\* C6: a put of a version below the one stored for its path changes no
\* metadata record, blob or count file, and returns success.
StalePutNoChange ==
  StalePut => /\ Snapshot = pre
              /\ AllIdle => result[LastCall.task] = "ok"

StalePutWitness == StalePut /\ AllIdle /\ result[LastCall.task] = "ok"

Max(S) == CHOOSE x \in S : \A y \in S : y <= x

\* Every call so far was a put of one content to one path.
SamePuts ==
  /\ history # <<>>
  /\ \A i \in 1..Len(history) :
       /\ history[i].op = "put"
       /\ history[i].path = history[1].path
       /\ history[i].checksum = history[1].checksum

\* C8: after puts of one content to one path, one after another, the record
\* of the path has the largest version put, the blob of the content is the
\* only blob and its count file holds 1.
SamePutsMax ==
  SamePuts /\ AllIdle =>
    /\ files[history[1].path] =
         [version |-> Max({history[i].version : i \in 1..Len(history)}),
          checksum |-> history[1].checksum,
          decompressed_size |-> ContentLen(Content(history[1].checksum))]
    /\ \A h \in Hashes : blobs[h] <=> h = history[1].checksum
    /\ \A h \in Hashes :
         counts[h] = IF h = history[1].checksum THEN 1 ELSE NoFile

\* Three such puts have returned, with versions that went up and then down.
SamePutsWitness ==
  /\ SamePuts /\ AllIdle
  /\ Len(history) = 3
  /\ history[1].version < history[2].version
  /\ history[3].version < history[2].version

\* The refcount of h in the store the last call started from.
PreRefcount(h) == IF pre.counts[h] = NoFile THEN 0 ELSE pre.counts[h]

\* C10: a delete of an absent path fails with not-found and changes nothing;
\* a delete with max_version below the stored version returns success and
\* changes nothing; any other delete removes the record of the path and
\* lowers the refcount of the blob the record named by one, and leaves the
\* other records, refcounts and blobs as they were.
DeleteContract ==
  history # <<>> /\ LastCall.op = "delete" /\ AllIdle =>
    IF PreRecord = NotFound
      THEN result[LastCall.task] = "not_found" /\ Snapshot = pre
      ELSE IF PreRecord.version > LastCall.version
        THEN result[LastCall.task] = "ok" /\ Snapshot = pre
        ELSE /\ result[LastCall.task] = "ok"
             /\ files = [pre.files EXCEPT ![LastCall.path] = NotFound]
             /\ \A h \in Hashes :
                  IF h = PreRecord.checksum
                    THEN Refcount(h) = PreRefcount(h) - 1
                    ELSE counts[h] = pre.counts[h] /\ blobs[h] = pre.blobs[h]

\* A delete with max_version equal to the stored version has returned, and
\* the blob it dropped a reference to is still named by the other path.
DeleteContractWitness ==
  /\ history # <<>> /\ LastCall.op = "delete" /\ AllIdle
  /\ PreRecord # NotFound
  /\ PreRecord.version = LastCall.version
  /\ files[LastCall.path] = NotFound
  /\ counts[PreRecord.checksum] = 1

\* C9: once N puts of one content to N distinct paths have returned the count
\* file of the blob holds N, and once the N deletes of those paths have
\* returned the blob, its count file and every metadata record are gone.
SharedBlobCounted ==
  history # <<>> /\ AllIdle =>
    LET h == history[1].checksum
        puts == Cardinality(Calls("put"))
        deletes == Cardinality(Calls("delete"))
    IN /\ deletes = 0 => blobs[h] /\ counts[h] = puts
       /\ deletes = puts =>
            /\ ~blobs[h]
            /\ counts[h] = NoFile
            /\ \A p \in Paths : files[p] = NotFound

\* Every path was put and then deleted, and all of it has returned.
SharedBlobWitness ==
  /\ AllIdle
  /\ Cardinality(Calls("put")) = Cardinality(Paths)
  /\ Cardinality(Calls("delete")) = Cardinality(Paths)


\* The last request of history was a put that has returned Ok and was not
\* dropped as stale.
PutApplied ==
  /\ history # <<>> /\ LastCall.op = "put" /\ AllIdle
  /\ result[LastCall.task] = "ok"
  /\ ~Newer(PreRecord, LastCall.version)

\* C11: after a put of a body that is not gzipped, whether or not the request
\* gave a checksum or a logical size, the record of the path holds the SHA-256
\* of the body as checksum and the length of the body as decompressed_size,
\* and the blob of that SHA-256 exists.
RawPutHashesContent ==
  PutApplied /\ ~LastCall.content_is_gzipped =>
    /\ files[LastCall.path].checksum = Sha256(LastCall.content)
    /\ files[LastCall.path].decompressed_size = ContentLen(LastCall.content)
    /\ blobs[Sha256(LastCall.content)]

\* C12: every path a listing yields is the path, from the metadata root, of a
\* stored file under the directory listed, and comes with the record of that
\* file; for the directory d and the file d/b the path is d/b.
ListedFromRoot ==
  \A i \in DOMAIN yielded :
    /\ yielded[i].path \in FileNodes
    /\ IsUnder(lister.metadata, yielded[i].path)
    /\ tree.nodes[yielded[i].path] = yielded[i].metadata

\* The file of the tree an item of a listing was yielded for.
ItemFile(it) == Join(lister.metadata, it.path)

\* The files a listing is to yield: the metadata files under the directory
\* listed whose version is max_version or older.
ToList ==
  {n \in FileNodes :
     /\ IsUnder(lister.metadata, n)
     /\ tree.nodes[n].kind = "file"
     /\ tree.nodes[n].version <= lister.max_version}

\* What a listing has yielded so far is right: only files under the directory
\* listed whose version is max_version or older, each with its record and
\* none of them twice; and once next() has returned None every one of them
\* has been yielded and the stack is empty.
ListerExact ==
  /\ \A i \in DOMAIN yielded :
       /\ ItemFile(yielded[i]) \in ToList
       /\ yielded[i].metadata = tree.nodes[ItemFile(yielded[i])]
       /\ \A j \in DOMAIN yielded : i # j => yielded[i].path # yielded[j].path
  /\ Len(yielded) <= Cardinality(ToList)
  /\ ended > 0 =>
       /\ {ItemFile(yielded[i]) : i \in DOMAIN yielded} = ToList
       /\ lister.readdir_stack = <<>>

\* C13: on an unchanging tree with valid records the calls of next() yield
\* each file under the directory listed whose version is max_version or
\* older exactly once, those of version max_version and those in nested
\* directories too, and no newer file; a listing that is read on returns
\* None after finitely many calls, and returns None at every call after that.
ListerEnds ==
  /\ []ListerExact
  /\ lister.state = "open" ~> ended = MaxNone
  /\ [][ended > 0 => yielded' = yielded /\ lister' = lister]_vars

\* A listing of the root has returned None twice: it has yielded a file of
\* version max_version in a nested directory and has passed over a file
\* that is newer.
ListerEndsWitness ==
  /\ ended = MaxNone
  /\ lister.metadata = Root
  /\ \E i \in DOMAIN yielded :
       /\ Len(yielded[i].path) > 1
       /\ yielded[i].metadata.version = lister.max_version
  /\ \E n \in FileNodes :
       tree.nodes[n].kind = "file" /\ tree.nodes[n].version > lister.max_version

\* The last call of history was a put that failed between the write of the
\* blob and the commit of the record, the only failure there has been.
PutFailed ==
  /\ history # <<>> /\ LastCall.op = "put" /\ AllIdle
  /\ result[LastCall.task] = "io_error"

\* C14: a put that fails between the write of its blob and the commit of its
\* record leaves one reference too many on the blob it wrote and nothing else
\* out of order: the count of every other blob is the number of records that
\* name it, and every record names a blob that exists.
OrphanOnly ==
  PutFailed =>
    /\ Refcount(LastCall.checksum) = Cardinality(References(LastCall.checksum)) + 1
    /\ \A h \in Hashes \ {LastCall.checksum} :
         Refcount(h) = Cardinality(References(h))
    /\ \A p \in Paths : files[p] # NotFound => blobs[files[p].checksum]

\* The last call of history was made on a path whose metadata file did not
\* deserialize, and has returned.
OnCorrupt ==
  /\ history # <<>> /\ AllIdle
  /\ pre.files[LastCall.path] = InvalidData

\* C15: get, head, delete and put on a path whose metadata file exists and
\* does not deserialize fail with invalid-data, not with not-found; no blob
\* is written or removed, no count changes, and the metadata file is left as
\* it is, by put as well.
CorruptIsInvalidData ==
  OnCorrupt =>
    /\ result[LastCall.task] = "invalid_data"
    /\ blobs = pre.blobs
    /\ counts = pre.counts
    /\ files[LastCall.path] = InvalidData

\* Each of the four operations has been called on a damaged path and has
\* returned: here a put, on a path whose record named a blob that exists.
CorruptWitness ==
  /\ OnCorrupt
  /\ LastCall.op = "put"
  /\ \E h \in Hashes : blobs[h] /\ Cardinality(References(h)) = 0

\* The bytes of the gzip stream GzEncoder makes of the short body c: a ten
\* byte header, the deflate block and an eight byte trailer.
GzipLen(c) == ContentLen(c) + 20
\* BlobStorage::metadata(h).len(): the byte count of the blob put stored for
\* the body whose hash is h.
BlobLen(h) == GzipLen(Content(h))

\* C16: head on a path that has a record returns the record together with
\* the byte count on disk of the blob the record names, and head on a path
\* that has none fails with not-found.
HeadReturnsLength ==
  history # <<>> /\ LastCall.op = "head" /\ AllIdle =>
    LET t == LastCall.task IN
    IF PreRecord = NotFound
      THEN result[t] = "not_found"
      ELSE /\ result[t] = "ok"
           /\ value[t].metadata = PreRecord
           /\ "len" \in DOMAIN value[t]
           /\ value[t].len = BlobLen(PreRecord.checksum)

\* Task t returns from BlobStorage::write in this step.
WriteReturns(t) == pc[t] \in {"write_count", "write_incr"} /\ pc'[t] = "put_commit"

\* A write that returns has returned true if the blob did not exist when it
\* got the guard of the hash and false if it did, and leaves the blob in
\* place with a count one above the one it found, 1 for a new blob.
WriteEffect ==
  \A t \in Tasks :
    WriteReturns(t) =>
      LET h == sha256[t] IN
      /\ created'[t] = (IF before[t].blob THEN "false" ELSE "true")
      /\ blobs'[h]
      /\ counts'[h] = (IF before[t].blob THEN before[t].count + 1 ELSE 1)

\* Once the writes of one hash that different tasks made on a store without
\* the blob have all returned, the count is their number and one of them
\* has returned true.
WritesCounted ==
  history # <<>> /\ AllIdle /\ Calls("delete") = {} =>
    LET h == history[1].checksum
        writers == {history[i].task : i \in DOMAIN history}
    IN /\ counts[h] = Len(history)
       /\ Cardinality(writers) = Len(history) =>
            Cardinality({t \in writers : created[t] = "true"}) = 1

\* C17: BlobStorage::write returns true exactly when the blob did not exist
\* before it, and false otherwise; after it the blob exists and its count is
\* one greater than before, 1 for a new blob; k writes of one hash that run
\* at the same time raise the count by k, and exactly one of them returns
\* true when the blob was absent.
WriteContract == [][WriteEffect]_vars /\ []WritesCounted

\* A write has returned true and its put is about to commit, while the
\* write of the same hash by the other task, which queued behind it for
\* the guard, has been handed the permit.
WriteContractWitness ==
  \E t, u \in Tasks, h \in Hashes :
    /\ pc[t] = "put_commit" /\ created[t] = "true" /\ args[t].checksum = h
    /\ pc[u] = "write_await" /\ sha256[u] = h
    /\ \E x \in handles[u] : x.key = h /\ x.st = "waiting" /\ mtxOwner[<<h, x.gen>>] = u

\* Task t returns Ok from BlobStorage::decref in this step.
DecrefReturns(t) ==
  /\ pc[t] \in {"decref_remove_blob", "decref_write"}
  /\ pc'[t] \in {"write_lock_ref", "delete_remove"}

\* Task t, with the guard of the hash, reads the count in this step.
DecrefReads(t) == pc[t] = "decref_read" /\ pc'[t] # "decref_read"

\* A decref that found the count 1 when it got the guard of the hash has
\* removed the count file and the blob when it returns, and one that found
\* n > 1 has left the blob with the count n - 1; a decref that found no blob
\* fails with not-found at its first read and changes no file.
DecrefEffect ==
  \A t \in Tasks :
    LET h == sha256[t] IN
    /\ DecrefReturns(t) =>
         IF before[t].count = 1
           THEN ~blobs'[h] /\ counts'[h] = NoFile
           ELSE before[t].count > 1 /\ blobs'[h] /\ counts'[h] = before[t].count - 1
    /\ DecrefReads(t) /\ ~before[t].blob =>
         pc'[t] = "idle" /\ result'[t] = "not_found" /\ fs' = fs

\* C18: decref removes the count file and the blob when the count is 1,
\* leaves the blob with the count n - 1 when it is n > 1, and fails and
\* changes nothing when the blob is absent; no count file ever holds 0.
DecrefContract == [][DecrefEffect]_vars /\ [](\A h \in Hashes : counts[h] # 0)

\* A delete is back from the decref that removed the blob its record
\* named, and the decref of the same blob by the other task has the guard
\* and found no blob.
DecrefContractWitness ==
  \E t, u \in Tasks :
    /\ pc[t] = "delete_remove" /\ ~blobs[meta[t].checksum]
    /\ pc[u] = "decref_read" /\ sha256[u] = meta[t].checksum /\ ~before[u].blob

\* Some task has a guard of the entry of key k, or a future of lock_ref(k)
\* that has not given it one yet.
InUse(k) == \E t \in Tasks : \E x \in handles[t] : x.key = k /\ x.gen = locks[k]

\* This step is a tick of the janitor of the lock map with keys K that
\* removes an entry.
Reclaims(K) ==
  /\ handles' = handles
  /\ \E k \in K : locks[k] # 0 /\ locks'[k] = 0

\* A tick removes every entry of its map that is not in use and no other,
\* and no step removes or replaces an entry that is in use.
JanitorEffect ==
  /\ \A K \in {Paths, Hashes} :
       Reclaims(K) =>
         \A k \in K : locks'[k] = (IF InUse(k) THEN locks[k] ELSE 0)
  /\ \A k \in Keys : locks[k] # 0 /\ InUse(k) => locks'[k] = locks[k]

\* The guards and the futures of one key are all of the mutex that is in the
\* map for that key.
OneMutexPerKey ==
  \A t \in Tasks : \A x \in handles[t] : locks[x.key] = x.gen

\* C19: a tick of the janitor removes exactly the entries with no guard
\* outstanding and no acquirer pending, and leaves every entry with a guard
\* held or an acquire waiting in place, so the guards and waiters of one key
\* always are of one mutex.
JanitorKeepsUsed == [][JanitorEffect]_vars /\ []OneMutexPerKey

\* The entry of a hash whose blob was written is gone from the map, removed
\* by a tick, while the entry of the other hash, whose guard one task holds
\* and whose mutex the other task waits for, is in place.
JanitorKeepsUsedWitness ==
  \E k, k2 \in Hashes : \E t, u \in Tasks :
    /\ blobs[k] /\ locks[k] = 0
    /\ locks[k2] # 0 /\ Holds(t, k2)
    /\ [key |-> k2, gen |-> locks[k2], st |-> "waiting"] \in handles[u]

\* Task t polls, for the first time in this step, the future lock_ref(k)
\* returned to it.
Polls(t, k) ==
  \E x \in handles[t] :
    /\ x.key = k /\ x.st = "future"
    /\ x \notin handles'[t]
    /\ \E s \in {"waiting", "guard"} : [x EXCEPT !.st = s] \in handles'[t]

\* No task has a guard of key k.
NoGuard(k) == \A u \in Tasks : ~Holds(u, k)

\* No task has a guard of key k, and none waits for one with a future it
\* has polled.
Free(k) ==
  \A u \in Tasks : \A x \in handles[u] : x.key = k => x.st = "future"

\* C20, as stated: an acquire of key k completes at its poll whenever no
\* guard of k is outstanding, whatever guards of other keys are held or
\* waited for.
AcquiresWithoutGuard ==
  [][\A t \in Tasks, k \in Keys : Polls(t, k) /\ NoGuard(k) => Holds(t, k)']_vars

\* C20, amended: an acquire of key k completes at its poll whenever no
\* guard of k is outstanding and no earlier acquire of k is still waiting,
\* whatever guards of other keys are held or waited for.
AcquiresWhenFree ==
  [][\A t \in Tasks, k \in Keys : Polls(t, k) /\ Free(k) => Holds(t, k)']_vars

\* Each task has the guard of a hash of its own, both of one lock map.
AcquiresWhenFreeWitness ==
  \E t, u \in Tasks : \E k, k2 \in Hashes :
    t # u /\ k # k2 /\ Holds(t, k) /\ Holds(u, k2)

\* A get of path p by task t returns in this step.
GetReturns(t) == args[t].op = "get" /\ pc[t] # "idle" /\ pc'[t] = "idle"

\* C21: a get of a path that has a record, and that nothing puts or deletes
\* while others put and delete other paths, returns Ok with the blob that
\* the checksum of the path's record names.
GetOfWatchedSucceeds ==
  [][\A t \in Tasks :
       GetReturns(t) =>
         /\ pc[t] = "get_read_blob"
         /\ meta[t] = files[Watched]
         /\ blobs[meta[t].checksum]
         /\ result'[t] = "ok"]_vars

\* The chars that are hex digits, of either case.
HexChars == Range(LowerDigits) \cup Range(UpperDigits)
Returned(f) == \E i \in 1..Len(called) : called[i] = f

\* C22: hex_to_byte_array::<N> returns None for every string whose length, in
\* chars or in bytes, is not 2N or that has a char that is no hex digit;
\* bytes_to_hex of an array of N bytes is 2N lower-case hex digits, and
\* hex_to_byte_array::<N> of it is Some of the array.
HexCodec ==
  /\ Returned("hex_to_byte_array") /\
       (\/ Len(input) # 2 * HexN
        \/ StrLen(input) # 2 * HexN
        \/ \E i \in 1..Len(input) : input[i] \notin HexChars)
       => array = None
  /\ Returned("bytes_to_hex") =>
       /\ Len(hex) = 2 * HexN
       /\ \A i \in 1..Len(hex) : hex[i] \in Range(LowerDigits)
  /\ called = <<"bytes_to_hex", "hex_to_byte_array">> => array = Some(bytes)

\* An array whose first byte is 0xab has gone through bytes_to_hex, which
\* made letters of it, and back through hex_to_byte_array.
HexCodecWitness ==
  /\ called = <<"bytes_to_hex", "hex_to_byte_array">>
  /\ bytes[1] = 171
  /\ SubSeq(hex, 1, 2) = <<"a", "b">>
  /\ array = Some(bytes)
====
